---- MODULE Spec2Model ----
(***************************************************************************)
(* Model of the three dashboard pages of hotel-aggregator-frontend:        *)
(*   src/app/page.tsx      review aggregator (summary, rating distribution)*)
(*   src/unnamed/part_001  review list with a source filter                *)
(*   src/unnamed/part_000  business listing with a name/category filter    *)
(*                                                                         *)
(* Strings the code inspects character by character (distribution keys,    *)
(* the textarea, source labels, search terms) are sequences of one-        *)
(* character strings.  Ratings are fixed-point numbers in hundredths of a  *)
(* star (433 is 4.33), so that toFixed(2) is a rounding of a quotient and  *)
(* not the identity.  An optional field that is absent is a field missing  *)
(* from the record's DOMAIN.                                               *)
(***************************************************************************)
EXTENDS Integers, Sequences, FiniteSets, TLC

VARIABLES
    urls,        \* page.tsx line 60: the textarea's text
    data,        \* page.tsx line 61: the batch held by the aggregator page
    loading,     \* page.tsx line 62
    error,       \* page.tsx line 63: NoError or a message
    pc,          \* handleSubmit of page.tsx: "idle" or "fetching" (at the await)
    response,    \* page.tsx lines 80-91: how the last request was answered
    reviews,     \* part_001 line 18: data of the review list page
    businesses,  \* part_000 line 34: data of the business listing page
    searchTerm,  \* part_001 line 21, part_000 line 35
    reviewsUrls,      \* part_001 line 17: urls
    reviewsLoading,   \* part_001 line 19: loading
    reviewsError,     \* part_001 line 20: error
    reviewsPc,        \* handleSubmit of part_001: "idle" or "fetching"
    reviewsResponse,  \* part_001 lines 37-47: how the last request was answered
    apiUrl,           \* part_000 line 43: is NEXT_PUBLIC_API_URL configured
    query,            \* part_000 line 31
    businessLoading,  \* part_000 line 32: loading
    message,          \* part_000 line 33
    businessPc        \* handleSubmit of part_000: "idle" or "fetching"

aggVars == <<urls, data, loading, error, pc, response>>
filterVars == <<reviews, businesses, searchTerm>>
reviewsPageVars ==
    <<reviewsUrls, reviewsLoading, reviewsError, reviewsPc, reviewsResponse>>
businessPageVars == <<apiUrl, query, businessLoading, message, businessPc>>
vars == <<aggVars, filterVars, reviewsPageVars, businessPageVars>>

\* What an action of the aggregator page leaves alone.
otherPagesVars == <<filterVars, reviewsPageVars, businessPageVars>>

(***************************************************************************)
(* Bounds of the model.                                                    *)
(***************************************************************************)
MaxBatch == 3       \* records in one fetched batch
MaxCount == 2       \* largest review count of one record
MaxRows == 2        \* records handed to a filter
MaxQueryLen == 2    \* characters in a search term

(***************************************************************************)
(* Generic helpers.                                                        *)
(***************************************************************************)
SeqsUpTo(S, n) == UNION {[1..k -> S] : k \in 0..n}

Has(r, f) == f \in DOMAIN r

\* JavaScript's  item.f || 0  on a numeric field: absent (undefined) and 0
\* both give 0.
OrZero(r, f) == IF Has(r, f) THEN r[f] ELSE 0

(***************************************************************************)
(* src/app/page.tsx: the record type and the inputs the model draws.       *)
(* ReviewData (lines 13-19): source, rating, count, distribution; the      *)
(* backend may leave out any field but source.  The reviews field is read  *)
(* by the table rendering only and is left out.                            *)
(***************************************************************************)
Ratings == {433, 500}

\* The own properties of  combined  (line 117).
StarKeys == {"5", "4", "3", "2", "1"}

WellFormedKeys == {<<"5">>, <<"4">>, <<"3">>, <<"2">>, <<"1">>}

MalformedKeys ==
    {<<"5", "0">>, <<"1", "0">>, <<"5", "_", "s", "t", "a", "r">>, <<"0">>}

DistKeys == WellFormedKeys \cup MalformedKeys

DistMaps ==
    {[k \in {} |-> 0]}
      \cup {[x \in {k} |-> c] : k \in WellFormedKeys, c \in {1, 2}}
      \cup {[x \in {k} |-> 1] : k \in MalformedKeys}
      \cup {(<<"5">> :> 2) @@ (<<"4">> :> 1),
            (<<"5">> :> 1) @@ (<<"5", "0">> :> 2)}

Counts == 0..MaxCount

\* Records that vary rating and count (each present or absent) ...
RatedRecords ==
    [source : {"A"}]
      \cup [source : {"A"}, rating : Ratings]
      \cup [source : {"A"}, count : Counts]
      \cup [source : {"A"}, rating : Ratings, count : Counts]

\* ... records that vary the distribution map ...
DistRecords ==
    [source : {"B"}] \cup [source : {"B"}, distribution : DistMaps]

\* ... and one record with every field, after the scenario of the
\* specification (source A: rating 4, distribution over 5 and 4 stars).
FullRecords ==
    {[source |-> "A", rating |-> 400, count |-> 2,
      distribution |-> (<<"5">> :> 1) @@ (<<"4">> :> 1)]}

\* The batches a response may carry: one family varies what summary reads,
\* the other what ratingDistributionData reads.
SummaryBatches == SeqsUpTo(RatedRecords \cup FullRecords, MaxBatch)
DistributionBatches == SeqsUpTo(DistRecords \cup FullRecords, MaxBatch)

(***************************************************************************)
(* summary (page.tsx lines 104-114).                                       *)
(***************************************************************************)
\* data.reduce((sum, item) => sum + (item.count || 0), 0) over the first n
RECURSIVE TotalReviews(_, _)
TotalReviews(d, n) ==
    IF n = 0 THEN 0 ELSE TotalReviews(d, n - 1) + OrZero(d[n], "count")

\* data.reduce((sum, item) => sum + (item.rating || 0) * (item.count || 0), 0)
RECURSIVE WeightedTotalRating(_, _)
WeightedTotalRating(d, n) ==
    IF n = 0 THEN 0
    ELSE WeightedTotalRating(d, n - 1)
           + OrZero(d[n], "rating") * OrZero(d[n], "count")

\* A mutant of ToFixed2: the quotient cut off after two decimals.
ToFixed2Truncating(num, den) == num \div den

\* parseFloat((num / den).toFixed(2)) for num >= 0, den > 0: num / den is in
\* hundredths of a star already, so two decimals are the nearest integer,
\* the larger one on a tie (Number.prototype.toFixed picks the larger n).
\* The quotient is exact here; the code divides IEEE doubles, and where the
\* exact quotient is a tie that no double represents, toFixed may give the
\* smaller neighbour.
ToFixed2(num, den) == (2 * num + den) \div (2 * den)

\* A mutant of Summary: no review at all falls back to the plain mean of
\* the ratings, each record weighing 1.
RECURSIVE RatingSum(_, _)
RatingSum(d, n) ==
    IF n = 0 THEN 0 ELSE RatingSum(d, n - 1) + OrZero(d[n], "rating")

SummaryUnweightedFallback(d) ==
    IF Len(d) = 0
    THEN [avgRating |-> 0, totalReviews |-> 0, sourceCount |-> 0]
    ELSE LET totalReviews == TotalReviews(d, Len(d))
             weightedTotalRating == WeightedTotalRating(d, Len(d))
         IN  [avgRating |->
                  IF totalReviews > 0
                  THEN ToFixed2(weightedTotalRating, totalReviews)
                  ELSE ToFixed2(RatingSum(d, Len(d)), Len(d)),
              totalReviews |-> totalReviews,
              sourceCount |-> Len(d)]

\* A mutant of Summary: the records are keyed by source first, the last
\* record of each source winning.
LastOfSource(d) ==
    SelectSeq([i \in 1..Len(d) |->
                  IF \E j \in (i + 1)..Len(d) : d[j].source = d[i].source
                  THEN [source |-> ""] ELSE d[i]],
              LAMBDA r : r.source # "")

SummaryDeduplicated(d) ==
    LET u == LastOfSource(d)
    IN  IF Len(u) = 0
        THEN [avgRating |-> 0, totalReviews |-> 0, sourceCount |-> 0]
        ELSE LET totalReviews == TotalReviews(u, Len(u))
                 weightedTotalRating == WeightedTotalRating(u, Len(u))
             IN  [avgRating |->
                      IF totalReviews > 0
                      THEN ToFixed2(weightedTotalRating, totalReviews)
                      ELSE 0,
                  totalReviews |-> totalReviews,
                  sourceCount |-> Len(u)]

Summary(d) ==
    IF Len(d) = 0
    THEN [avgRating |-> 0, totalReviews |-> 0, sourceCount |-> 0]
    ELSE LET totalReviews == TotalReviews(d, Len(d))
             weightedTotalRating == WeightedTotalRating(d, Len(d))
         IN  [avgRating |->
                  IF totalReviews > 0
                  THEN ToFixed2(weightedTotalRating, totalReviews)
                  ELSE 0,
              totalReviews |-> totalReviews,
              sourceCount |-> Len(d)]

(***************************************************************************)
(* ratingDistributionData (page.tsx lines 116-135).                        *)
(***************************************************************************)
\* rating.charAt(0): the first character, the empty string for an empty key
CharAt0(key) == IF Len(key) = 0 THEN "" ELSE key[1]

\* The body of the for loop (lines 120-125) over the entries in  todo : each
\* entry adds its count to the accumulator named by the key's first
\* character, when  combined  has that property.
RECURSIVE AddEntries(_, _, _)
AddEntries(combined, dist, todo) ==
    IF todo = {} THEN combined
    ELSE LET rating == CHOOSE k \in todo : TRUE
             key == CharAt0(rating)
             next == IF key \in StarKeys
                     THEN [combined EXCEPT ![key] = @ + dist[rating]]
                     ELSE combined
         IN  AddEntries(next, dist, todo \ {rating})

\* data.forEach(source => { if (source.distribution) ... }) over the first n
RECURSIVE Combined(_, _)
Combined(d, n) ==
    IF n = 0 THEN [s \in StarKeys |-> 0]
    ELSE LET before == Combined(d, n - 1)
         IN  IF Has(d[n], "distribution")
             THEN AddEntries(before, d[n].distribution,
                             DOMAIN d[n].distribution)
             ELSE before

\* A mutant of RatingDistributionData: the entries are built from the
\* accumulators that counted something, the empty buckets left out.
RatingDistributionDataNonEmpty(d) ==
    LET combined == Combined(d, Len(d))
    IN  SelectSeq(<< [rating |-> 5, count |-> combined["5"]],
                     [rating |-> 4, count |-> combined["4"]],
                     [rating |-> 3, count |-> combined["3"]],
                     [rating |-> 2, count |-> combined["2"]],
                     [rating |-> 1, count |-> combined["1"]] >>,
                  LAMBDA entry : entry.count > 0)

RatingDistributionData(d) ==
    LET combined == Combined(d, Len(d))
    IN  << [rating |-> 5, count |-> combined["5"]],
           [rating |-> 4, count |-> combined["4"]],
           [rating |-> 3, count |-> combined["3"]],
           [rating |-> 2, count |-> combined["2"]],
           [rating |-> 1, count |-> combined["1"]] >>

\* The memoised values of the current render.
summary == Summary(data)
ratingDistributionData == RatingDistributionData(data)

(***************************************************************************)
(* handleSubmit (page.tsx lines 66-98) and the textarea (line 154).        *)
(***************************************************************************)
Whitespace == {" ", "\n", "\t"}

\* String.prototype.split('\n')
RECURSIVE SplitLines(_)
SplitLines(text) ==
    IF \A i \in 1..Len(text) : text[i] # "\n" THEN <<text>>
    ELSE LET i == CHOOSE j \in 1..Len(text) :
                      /\ text[j] = "\n"
                      /\ \A k \in 1..(j - 1) : text[k] # "\n"
         IN  <<SubSeq(text, 1, i - 1)>>
               \o SplitLines(SubSeq(text, i + 1, Len(text)))

\* String.prototype.trim()
RECURSIVE Trim(_)
Trim(s) ==
    IF Len(s) = 0 THEN s
    ELSE IF s[1] \in Whitespace THEN Trim(Tail(s))
    ELSE IF s[Len(s)] \in Whitespace THEN Trim(SubSeq(s, 1, Len(s) - 1))
    ELSE s

\* urls.split('\n').filter(url => url.trim() !== '')   (line 72)
UrlList(text) == SelectSeq(SplitLines(text), LAMBDA url : Trim(url) # <<>>)

\* What the user may have typed into the textarea.
UrlTexts == {<<>>, <<" ", "\n", " ">>, <<"u", "\n", "\n", "v", " ">>}

\* error === null, and the messages handleSubmit can set.
NoError == "null"
MsgNoUrl == "Please enter at least one URL."
MsgNotOk == "Failed to fetch data from the backend."
MsgFetch == "Failed to fetch"
MsgJson == "Unexpected token < in JSON at position 0"
MsgUpstream == "scrape failed"

InitAgg ==
    /\ urls = <<>>
    /\ data = <<>>
    /\ loading = FALSE
    /\ error = NoError
    /\ pc = "idle"
    /\ response = "none"

\* onChange={(e) => setUrls(e.target.value)}
SetUrls(text) ==
    /\ urls' = text
    /\ UNCHANGED <<data, loading, error, pc, response>>
    /\ UNCHANGED otherPagesVars

\* Lines 66-77 with no URL in the textarea: the submission ends at once.
\* The submit button is disabled while loading (line 165).
SubmitNoUrl ==
    /\ pc = "idle"
    /\ ~loading
    /\ Len(UrlList(urls)) = 0
    /\ data' = <<>>
    /\ error' = MsgNoUrl
    /\ loading' = FALSE
    /\ response' = "none"
    /\ UNCHANGED <<urls, pc>>
    /\ UNCHANGED otherPagesVars

\* Lines 66-84 up to the await of fetch.
SubmitFetch ==
    /\ pc = "idle"
    /\ ~loading
    /\ Len(UrlList(urls)) # 0
    /\ loading' = TRUE
    /\ error' = NoError
    /\ data' = <<>>
    /\ pc' = "fetching"
    /\ response' = "none"
    /\ UNCHANGED urls
    /\ UNCHANGED otherPagesVars

\* Lines 93-97 after a throw in the try block.
Fail(kind, msg) ==
    /\ pc = "fetching"
    /\ response' = kind
    /\ error' = msg
    /\ loading' = FALSE
    /\ pc' = "idle"
    /\ UNCHANGED <<urls, data>>
    /\ UNCHANGED otherPagesVars

\* fetch rejects (line 80)
FetchRejected == Fail("rejected", MsgFetch)

\* !response.ok (lines 86-88)
ResponseNotOk == Fail("notOk", MsgNotOk)

\* response.json() rejects (line 90)
JsonRejected == Fail("badJson", MsgJson)

\* result.error is set (line 91)
ResultError == Fail("errorField", MsgUpstream)

\* setData(result.data || []) (line 92), then finally (line 96);
\* a response without a data field gives the empty batch.
ResultData(batches) ==
    /\ pc = "fetching"
    /\ \E batch \in batches : data' = batch
    /\ response' = "data"
    /\ loading' = FALSE
    /\ pc' = "idle"
    /\ UNCHANGED <<urls, error>>
    /\ UNCHANGED otherPagesVars

(***************************************************************************)
(* The filters: filteredReviews (part_001 lines 56-61) over the source     *)
(* label and filteredData (part_000 lines 73-79) over name and category.   *)
(* A search term and the labels it is matched against are strings over a   *)
(* small alphabet with both cases of two letters and a blank.              *)
(***************************************************************************)
Alphabet == {"a", "A", "b", " "}

\* String.prototype.toLowerCase()
LowerChar(c) == IF c = "A" THEN "a" ELSE IF c = "B" THEN "b" ELSE c
ToLowerCase(s) == [i \in 1..Len(s) |-> LowerChar(s[i])]

\* String.prototype.includes(q): q occurs in text at position k or later
RECURSIVE IncludesFrom(_, _, _)
IncludesFrom(text, q, k) ==
    IF k + Len(q) - 1 > Len(text) THEN FALSE
    ELSE IF SubSeq(text, k, k + Len(q) - 1) = q THEN TRUE
    ELSE IncludesFrom(text, q, k + 1)

Includes(text, q) == IncludesFrom(text, q, 1)

\* A mutant of FilteredReviews: the search term is not lower-cased.
FilteredReviewsCaseSensitive(d, term) ==
    IF Len(term) = 0 THEN d
    ELSE SelectSeq(d, LAMBDA review :
             Includes(ToLowerCase(review.source), term))

\* A mutant of FilteredReviews: the scan starts at the second record.
FilteredReviewsSkippingFirst(d, term) ==
    IF Len(term) = 0 THEN d
    ELSE SelectSeq(IF Len(d) = 0 THEN d ELSE Tail(d), LAMBDA review :
             Includes(ToLowerCase(review.source), ToLowerCase(term)))

\* if (!searchTerm) return data;  -- only the empty string is falsy
FilteredReviews(d, term) ==
    IF Len(term) = 0 THEN d
    ELSE SelectSeq(d, LAMBDA review :
             Includes(ToLowerCase(review.source), ToLowerCase(term)))

\* A mutant of FilteredData: the name is compared as it is written.
FilteredDataNameAsWritten(d, term) ==
    IF Len(term) = 0 THEN d
    ELSE SelectSeq(d, LAMBDA item :
             \/ Includes(item.name, ToLowerCase(term))
             \/ Includes(ToLowerCase(item.category), ToLowerCase(term)))

FilteredData(d, term) ==
    IF Len(term) = 0 THEN d
    ELSE SelectSeq(d, LAMBDA item :
             \/ Includes(ToLowerCase(item.name), ToLowerCase(term))
             \/ Includes(ToLowerCase(item.category), ToLowerCase(term)))

\* Review records (part_001 lines 7-13): the filter reads source only; two
\* of the records share a source label and differ in rating.
ReviewRecords ==
    {[source |-> <<"A", "b">>, rating |-> 400],
     [source |-> <<"A", "b">>, rating |-> 500],
     [source |-> <<"b", " ", "a">>, rating |-> 400],
     [source |-> <<"B">>, rating |-> 400],
     [source |-> <<"a", "a">>, rating |-> 400]}

\* Business records (part_000 lines 14-27): the filter reads name and
\* category only.
BusinessRecords ==
    {[name |-> <<"A", "b">>, category |-> <<"b">>],
     [name |-> <<"b", " ", "a">>, category |-> <<"B">>],
     [name |-> <<"a">>, category |-> <<"a", "B">>],
     [name |-> <<"B">>, category |-> <<"A", " ">>]}

Queries == SeqsUpTo(Alphabet, MaxQueryLen)

\* The pages before any search: searchTerm is '' (useState); one of the two
\* pages holds a list of records.  The lists are drawn as inputs of the two
\* filters: handleSubmit of part_000 never stores a response
\* (lines 59-64), so its filter sees records only this way.
InitFilter ==
    /\ searchTerm = <<>>
    /\ \/ reviews \in SeqsUpTo(ReviewRecords, MaxRows) /\ businesses = <<>>
       \/ reviews = <<>> /\ businesses \in SeqsUpTo(BusinessRecords, MaxRows)

InitFilterIdle ==
    /\ reviews = <<>>
    /\ businesses = <<>>
    /\ searchTerm = <<>>

\* useState of part_001 (lines 17-20) but data
InitReviewsPage ==
    /\ reviewsUrls = <<>>
    /\ reviewsLoading = FALSE
    /\ reviewsError = NoError
    /\ reviewsPc = "idle"
    /\ reviewsResponse = "none"

\* The text of the query field: empty, or a query.
QueryTexts == {<<>>, <<"c">>}

\* useState of part_000 (lines 31-33) but data; the API URL is fixed when
\* the page is built.
InitBusinessPage ==
    /\ apiUrl \in BOOLEAN
    /\ query = <<"c">>
    /\ businessLoading = FALSE
    /\ message = ""
    /\ businessPc = "idle"

\* The forms of the two other pages, untouched.
InitFormsIdle ==
    /\ InitReviewsPage
    /\ apiUrl = TRUE
    /\ query = <<"c">>
    /\ businessLoading = FALSE
    /\ message = ""
    /\ businessPc = "idle"

\* onChange={(e) => setSearchTerm(e.target.value)}
SetSearchTerm(term) ==
    /\ searchTerm' = term
    /\ UNCHANGED <<reviews, businesses>>
    /\ UNCHANGED <<aggVars, reviewsPageVars, businessPageVars>>

\* The memoised values of the current render.
filteredReviews == FilteredReviews(reviews, searchTerm)
filteredData == FilteredData(businesses, searchTerm)

InitFilterPages == InitAgg /\ InitFilter /\ InitFormsIdle

NextFilter == \E term \in Queries : SetSearchTerm(term)

\* The two filters over drawn record lists.
SpecFilter == InitFilterPages /\ [][NextFilter]_vars

NextAgg(batches) ==
    \/ \E text \in UrlTexts : SetUrls(text)
    \/ SubmitNoUrl
    \/ SubmitFetch
    \/ FetchRejected
    \/ ResponseNotOk
    \/ JsonRejected
    \/ ResultError
    \/ ResultData(batches)

InitAggPage == InitAgg /\ InitFilterIdle /\ InitFormsIdle

NextSummary == NextAgg(SummaryBatches)
NextDistribution == NextAgg(DistributionBatches)

\* The aggregator page, fed batches that vary rating and count.
SpecSummary == InitAggPage /\ [][NextSummary]_vars

\* The aggregator page, fed batches that vary the distribution maps.
SpecDistribution == InitAggPage /\ [][NextDistribution]_vars

(***************************************************************************)
(* handleSubmit of the review list page (part_001 lines 23-54).  It is the *)
(* handler of page.tsx without the test of result.error.                   *)
(***************************************************************************)
\* onChange={(e) => setUrls(e.target.value)}  (line 87)
ReviewsSetUrls(text) ==
    /\ reviewsUrls' = text
    /\ UNCHANGED <<reviews, reviewsLoading, reviewsError, reviewsPc,
                   reviewsResponse>>
    /\ UNCHANGED <<aggVars, businessPageVars, businesses, searchTerm>>

\* A mutant of ReviewsSubmitNoUrl: the early return without setLoading(false).
ReviewsSubmitNoUrlStillLoading ==
    /\ reviewsPc = "idle"
    /\ ~reviewsLoading
    /\ Len(UrlList(reviewsUrls)) = 0
    /\ reviews' = <<>>
    /\ reviewsError' = MsgNoUrl
    /\ reviewsLoading' = TRUE
    /\ reviewsResponse' = "none"
    /\ UNCHANGED <<reviewsUrls, reviewsPc>>
    /\ UNCHANGED <<aggVars, businessPageVars, businesses, searchTerm>>

\* Lines 23-34 with no URL in the textarea; the button is disabled while
\* loading (line 94).
ReviewsSubmitNoUrl ==
    /\ reviewsPc = "idle"
    /\ ~reviewsLoading
    /\ Len(UrlList(reviewsUrls)) = 0
    /\ reviews' = <<>>
    /\ reviewsError' = MsgNoUrl
    /\ reviewsLoading' = FALSE
    /\ reviewsResponse' = "none"
    /\ UNCHANGED <<reviewsUrls, reviewsPc>>
    /\ UNCHANGED <<aggVars, businessPageVars, businesses, searchTerm>>

\* Lines 23-41 up to the await of fetch.
ReviewsSubmitFetch ==
    /\ reviewsPc = "idle"
    /\ ~reviewsLoading
    /\ Len(UrlList(reviewsUrls)) # 0
    /\ reviewsLoading' = TRUE
    /\ reviewsError' = NoError
    /\ reviews' = <<>>
    /\ reviewsPc' = "fetching"
    /\ reviewsResponse' = "none"
    /\ UNCHANGED reviewsUrls
    /\ UNCHANGED <<aggVars, businessPageVars, businesses, searchTerm>>

\* Lines 49-53 after a throw in the try block.
ReviewsFail(kind, msg) ==
    /\ reviewsPc = "fetching"
    /\ reviewsResponse' = kind
    /\ reviewsError' = msg
    /\ reviewsLoading' = FALSE
    /\ reviewsPc' = "idle"
    /\ UNCHANGED <<reviewsUrls, reviews>>
    /\ UNCHANGED <<aggVars, businessPageVars, businesses, searchTerm>>

\* fetch rejects (line 37)
ReviewsFetchRejected == ReviewsFail("rejected", MsgFetch)

\* !response.ok (lines 43-45)
ReviewsResponseNotOk == ReviewsFail("notOk", MsgNotOk)

\* response.json() rejects (line 47)
ReviewsJsonRejected == ReviewsFail("badJson", MsgJson)

\* setData(result.data || []) (line 48), then finally (line 52), whether
\* the body carries an error field ("errorField") or not ("data"); a body
\* without a data field gives the empty list.
ReviewsResult(batches) ==
    /\ reviewsPc = "fetching"
    /\ \E batch \in batches : reviews' = batch
    /\ \E kind \in {"data", "errorField"} : reviewsResponse' = kind
    /\ reviewsLoading' = FALSE
    /\ reviewsPc' = "idle"
    /\ UNCHANGED <<reviewsUrls, reviewsError>>
    /\ UNCHANGED <<aggVars, businessPageVars, businesses, searchTerm>>

(***************************************************************************)
(* The business listing page (part_000): handleSubmit (lines 37-71),       *)
(* averageRating (lines 81-85), ratingDistribution (lines 87-103).         *)
(***************************************************************************)
MsgNoApiUrl == "Error: API URL is not configured."
MsgScraped == "Scraping started"
MsgErrFetch == "Error: Failed to fetch"
MsgErrJson == "Error: Unexpected token < in JSON at position 0"
MsgErrBackend == "Error: scrape failed"
MsgErrUnknown == "Error: An unknown error occurred."
MsgUndefined == "undefined"

\* onChange={(e) => setQuery(e.target.value)}  (line 124)
SetQuery(text) ==
    /\ query' = text
    /\ UNCHANGED <<apiUrl, businessLoading, message, businessPc, businesses>>
    /\ UNCHANGED <<aggVars, reviewsPageVars, reviews, searchTerm>>

\* Lines 37-48 without an API URL.  The query field is required (line 127)
\* and the button is disabled while loading (line 135).
BusinessSubmitNoApiUrl ==
    /\ businessPc = "idle"
    /\ ~businessLoading
    /\ Len(query) > 0
    /\ ~apiUrl
    /\ businesses' = <<>>
    /\ message' = MsgNoApiUrl
    /\ businessLoading' = FALSE
    /\ UNCHANGED <<apiUrl, query, businessPc>>
    /\ UNCHANGED <<aggVars, reviewsPageVars, reviews, searchTerm>>

\* Lines 37-55 up to the await of fetch.
BusinessSubmitFetch ==
    /\ businessPc = "idle"
    /\ ~businessLoading
    /\ Len(query) > 0
    /\ apiUrl
    /\ businessLoading' = TRUE
    /\ message' = ""
    /\ businesses' = <<>>
    /\ businessPc' = "fetching"
    /\ UNCHANGED <<apiUrl, query>>
    /\ UNCHANGED <<aggVars, reviewsPageVars, reviews, searchTerm>>

\* The rest of handleSubmit with the message it sets, data left alone.
BusinessSettle(msg) ==
    /\ businessPc = "fetching"
    /\ message' = msg
    /\ businessLoading' = FALSE
    /\ businessPc' = "idle"
    /\ UNCHANGED <<apiUrl, query, businesses>>
    /\ UNCHANGED <<aggVars, reviewsPageVars, reviews, searchTerm>>

\* fetch rejects (line 51), caught at lines 66-67
BusinessFetchRejected == BusinessSettle(MsgErrFetch)

\* response.json() rejects (line 56)
BusinessJsonRejected == BusinessSettle(MsgErrJson)

\* !response.ok (line 57), with or without result.message
BusinessResponseNotOk ==
    \E msg \in {MsgErrBackend, MsgErrUnknown} : BusinessSettle(msg)

\* A mutant of BusinessResultOk: the response's data is stored, as the
\* comment at lines 63-64 proposes.
BusinessResultStored ==
    /\ businessPc = "fetching"
    /\ message' = MsgScraped
    /\ businesses' = <<[name |-> <<"a">>, category |-> <<"b">>, rating |-> 450]>>
    /\ businessLoading' = FALSE
    /\ businessPc' = "idle"
    /\ UNCHANGED <<apiUrl, query>>
    /\ UNCHANGED <<aggVars, reviewsPageVars, reviews, searchTerm>>

\* setMessage(result.message) (line 62), the message present or not; the
\* response's data is not stored.
BusinessResultOk ==
    \E msg \in {MsgScraped, MsgUndefined} : BusinessSettle(msg)

\* averageRating: 0 for no data, else (total / data.length).toFixed(2)
RECURSIVE BusinessRatingTotal(_, _)
BusinessRatingTotal(d, n) ==
    IF n = 0 THEN 0
    ELSE BusinessRatingTotal(d, n - 1) + OrZero(d[n], "rating")

AverageRating(d) ==
    IF Len(d) = 0 THEN 0 ELSE ToFixed2(BusinessRatingTotal(d, Len(d)), Len(d))

averageRating == AverageRating(businesses)

\* {!loading && data.length > 0 && ( ... dashboard ... )}  (line 162)
DashboardShown == ~businessLoading /\ Len(businesses) > 0

\* The names of the five bars (lines 88-94).
BucketNames ==
    <<"5 Stars", "4-4.9 Stars", "3-3.9 Stars", "2-2.9 Stars", "1-1.9 Stars">>

\* The threshold of the test of distribution[i - 1], in hundredths
\* (lines 96-100).
Threshold(i) == (6 - i) * 100

\* item.rating >= n is false for a rating that is absent.
RatingAtLeast(item, n) == Has(item, "rating") /\ item.rating >= n

\* A mutant of CountedIn: five independent tests instead of the else-if
\* chain.
CountedInEveryReachedBucket(item, i) == RatingAtLeast(item, Threshold(i))

\* Whether the body of forEach increments distribution[i - 1] for the item:
\* the first test of the chain that succeeds is test i.
CountedIn(item, i) ==
    /\ RatingAtLeast(item, Threshold(i))
    /\ \A j \in 1..(i - 1) : ~RatingAtLeast(item, Threshold(j))

\* The counts after forEach over the first n items.
RECURSIVE Distribute(_, _)
Distribute(d, n) ==
    IF n = 0 THEN [i \in 1..5 |-> 0]
    ELSE LET before == Distribute(d, n - 1)
         IN  [i \in 1..5 |->
                 IF CountedIn(d[n], i) THEN before[i] + 1 ELSE before[i]]

RatingDistribution(d) ==
    LET counts == Distribute(d, Len(d))
    IN  [i \in 1..5 |-> [name |-> BucketNames[i], count |-> counts[i]]]

ratingDistribution == RatingDistribution(businesses)

\* Businesses as ratingDistribution reads them: ratings on both sides of
\* every threshold, above 5, below 1, and absent.
BusinessRatings == {99, 100, 250, 399, 400, 499, 500, 550}
RatedBusinesses ==
    [name : {<<"a">>}, category : {<<"b">>}]
        \cup [name : {<<"a">>}, category : {<<"b">>}, rating : BusinessRatings]

InitRatings ==
    /\ InitAgg
    /\ InitFormsIdle
    /\ reviews = <<>>
    /\ searchTerm = <<>>
    /\ businesses \in SeqsUpTo(RatedBusinesses, MaxRows)

\* ratingDistribution over every list of businesses, the search box in use.
SpecRatings == InitRatings /\ [][NextFilter]_vars

(***************************************************************************)
(* The three pages with their forms.                                       *)
(***************************************************************************)
PageBatches == SeqsUpTo(FullRecords, 1)
ReviewsPageBatches ==
    SeqsUpTo({[source |-> <<"A", "b">>, rating |-> 400]}, 1)

InitPages ==
    /\ InitAgg
    /\ InitFilterIdle
    /\ InitReviewsPage
    /\ InitBusinessPage

AggSettles ==
    \/ FetchRejected
    \/ ResponseNotOk
    \/ JsonRejected
    \/ ResultError
    \/ ResultData(PageBatches)

ReviewsSettles ==
    \/ ReviewsFetchRejected
    \/ ReviewsResponseNotOk
    \/ ReviewsJsonRejected
    \/ ReviewsResult(ReviewsPageBatches)

BusinessSettles ==
    \/ BusinessFetchRejected
    \/ BusinessJsonRejected
    \/ BusinessResponseNotOk
    \/ BusinessResultOk

NextPages ==
    \/ \E text \in UrlTexts : SetUrls(text)
    \/ SubmitNoUrl
    \/ SubmitFetch
    \/ AggSettles
    \/ \E text \in UrlTexts : ReviewsSetUrls(text)
    \/ ReviewsSubmitNoUrl
    \/ ReviewsSubmitFetch
    \/ ReviewsSettles
    \/ \E text \in QueryTexts : SetQuery(text)
    \/ BusinessSubmitNoApiUrl
    \/ BusinessSubmitFetch
    \/ BusinessSettles

\* The forms of the three pages.
SpecPages == InitPages /\ [][NextPages]_vars

\* A pending fetch settles: its promise resolves or rejects.
SpecPagesFair ==
    /\ InitPages
    /\ [][NextPages]_vars
    /\ WF_vars(AggSettles)
    /\ WF_vars(ReviewsSettles)
    /\ WF_vars(BusinessSettles)

(***************************************************************************)
(* Properties.  The sums below are taken over index sets, independently of *)
(* the left-to-right reductions of the code.                               *)
(***************************************************************************)
RECURSIVE SumFn(_)
SumFn(f) ==
    IF DOMAIN f = {} THEN 0
    ELSE LET x == CHOOSE y \in DOMAIN f : TRUE
         IN  f[x] + SumFn([y \in DOMAIN f \ {x} |-> f[y]])

RemoveAt(d, i) == SubSeq(d, 1, i - 1) \o SubSeq(d, i + 1, Len(d))

Permuted(d, p) == [i \in 1..Len(d) |-> d[p[i]]]

\* The count a record reports for one star value, 0 when the record has no
\* distribution or the distribution has no such bucket.
StarCount(r, star) ==
    IF Has(r, "distribution") /\ <<star>> \in DOMAIN r.distribution
    THEN r.distribution[<<star>>] ELSE 0

StarOfEntry == (1 :> "5") @@ (2 :> "4") @@ (3 :> "3") @@ (4 :> "2") @@ (5 :> "1")

\* The batch with every pair under an unrecognized key taken out of the
\* distribution maps.
WithoutUnrecognizedKeys(d) ==
    [i \in 1..Len(d) |->
        IF Has(d[i], "distribution")
        THEN [d[i] EXCEPT !.distribution =
                 [k \in DOMAIN d[i].distribution \cap WellFormedKeys |->
                     d[i].distribution[k]]]
        ELSE d[i]]

Rated(d) == {i \in 1..Len(d) : Has(d[i], "rating") /\ OrZero(d[i], "count") > 0}

CountSum(d) == SumFn([i \in 1..Len(d) |-> OrZero(d[i], "count")])

WeightedSum(d) ==
    SumFn([i \in 1..Len(d) |-> OrZero(d[i], "rating") * OrZero(d[i], "count")])

\* C1: each of the five buckets of ratingDistributionData is the sum of
\* that star's count over all records' distribution maps (absent maps and
\* buckets counting 0), and every permutation of the records gives the same
\* result.
C1_BucketsArePerStarSums ==
    /\ \A e \in 1..5 :
          ratingDistributionData[e].count
            = SumFn([i \in 1..Len(data) |-> StarCount(data[i], StarOfEntry[e])])
    /\ \A p \in Permutations(1..Len(data)) :
          RatingDistributionData(Permuted(data, p)) = ratingDistributionData

\* C2: a pair of a distribution map is added only if its key is one of the
\* star values 1..5; every other key leaves all five accumulators as they
\* are, so taking those pairs out of the batch changes nothing.
C2_UnrecognizedKeysIgnored ==
    ratingDistributionData = RatingDistributionData(WithoutUnrecognizedKeys(data))

\* C3: a record whose rating is missing adds nothing to the numerator and
\* nothing to the denominator of the weighted average: the batch without it
\* has the same avgRating.
C3_MissingRatingExcluded ==
    \A i \in 1..Len(data) :
        ~Has(data[i], "rating")
          => Summary(RemoveAt(data, i)).avgRating = summary.avgRating

\* C4: avgRating lies between the least and the greatest rating of the
\* records that weigh in (a rating and a count above 0).
C4_AverageWithinRatings ==
    Rated(data) # {}
      => /\ \E i \in Rated(data) : data[i].rating <= summary.avgRating
         /\ \E i \in Rated(data) : summary.avgRating <= data[i].rating

\* C5: a batch whose review counts add up to 0 (empty, counts absent or all
\* 0) has avgRating 0.
C5_ZeroTotalGivesZero ==
    CountSum(data) = 0 => summary.avgRating = 0

C5_Witness ==
    /\ Len(data) = 2
    /\ CountSum(data) = 0
    /\ \E i \in 1..Len(data) : Has(data[i], "rating") /\ ~Has(data[i], "count")
    /\ \E i \in 1..Len(data) : Has(data[i], "rating") /\ Has(data[i], "count")
    /\ summary.avgRating = 0

\* C6: with reviews present, avgRating is the quotient of the two sums
\* rounded to the nearest hundredth (it differs from the exact quotient by
\* at most half a hundredth), and a record with a rating and count 0 changes
\* neither avgRating nor totalReviews.
C6_WeightedMeanRoundedOnce ==
    /\ CountSum(data) > 0 =>
          LET diff == 2 * CountSum(data) * summary.avgRating - 2 * WeightedSum(data)
          IN  /\ diff <= CountSum(data)
              /\ -diff <= CountSum(data)
    /\ \A i \in 1..Len(data) :
          (Has(data[i], "rating") /\ Has(data[i], "count") /\ data[i].count = 0)
            => /\ Summary(RemoveAt(data, i)).avgRating = summary.avgRating
               /\ Summary(RemoveAt(data, i)).totalReviews = summary.totalReviews

\* a quotient that is no multiple of a hundredth, next to a record of count 0
C6_Witness ==
    /\ CountSum(data) > 0
    /\ 2 * (WeightedSum(data) % CountSum(data)) > CountSum(data)
    /\ summary.avgRating * CountSum(data) > WeightedSum(data)
    /\ \E i \in 1..Len(data) :
          Has(data[i], "rating") /\ Has(data[i], "count") /\ data[i].count = 0
    /\ \A i \in 1..Len(data) : Has(data[i], "rating")

\* C7: sourceCount is the number of records, with or without reviews, and
\* totalReviews is the sum of count over all records (absent as 0); records
\* with the same source label are all summed.
C7_CountsOverAllRecords ==
    /\ summary.sourceCount = Len(data)
    /\ summary.totalReviews = CountSum(data)

\* two records of one source with reviews, and a record with no count
C7_Witness ==
    /\ Len(data) = 3
    /\ data[1].source = data[2].source
    /\ OrZero(data[1], "count") > 0
    /\ OrZero(data[2], "count") > 0
    /\ ~Has(data[3], "count")
    /\ summary.sourceCount = 3
    /\ summary.totalReviews = data[1].count + data[2].count

(***************************************************************************)
(* Properties of the filters.  Matching is stated position by position,    *)
(* independently of toLowerCase and includes.                              *)
(***************************************************************************)
SameLetter(c, e) == c = e \/ {c, e} = {"a", "A"} \/ {c, e} = {"b", "B"}

ContainsIgnoringCase(text, q) ==
    \E k \in 0..(Len(text) - Len(q)) :
        \A j \in 1..Len(q) : SameLetter(text[k + j], q[j])

\* out is the list of the records of d at the positions in keep, in order
IsSelection(out, d, keep) ==
    /\ Len(out) = Cardinality(keep)
    /\ \A i \in keep : out[Cardinality({j \in keep : j <= i})] = d[i]

AllWhitespace(s) == \A i \in 1..Len(s) : s[i] \in Whitespace

\* C8: a search term that is empty or only whitespace gives back the whole
\* list unchanged, in its order, from both filters.
C8_BlankQueryIsIdentity ==
    AllWhitespace(searchTerm)
      => filteredReviews = reviews /\ filteredData = businesses

\* C9: the output of a filter is exactly the records whose searchable text
\* (source; name or category) contains the search term ignoring case, each
\* kept, no other kept, in their original order.
C9_ExactlyTheMatches ==
    /\ IsSelection(filteredReviews, reviews,
           {i \in 1..Len(reviews) :
               ContainsIgnoringCase(reviews[i].source, searchTerm)})
    /\ IsSelection(filteredData, businesses,
           {i \in 1..Len(businesses) :
               \/ ContainsIgnoringCase(businesses[i].name, searchTerm)
               \/ ContainsIgnoringCase(businesses[i].category, searchTerm)})

\* a term that matches one of two records, and that one by another case
C9_Witness ==
    /\ Len(reviews) = 2
    /\ Len(searchTerm) = 2
    /\ filteredReviews = <<reviews[2]>>
    /\ reviews[2].source # searchTerm
    /\ ToLowerCase(reviews[2].source) # searchTerm

\* C10: filtering a filtered list again with the same term gives the same
\* list.
C10_FilterIdempotent ==
    /\ FilteredReviews(filteredReviews, searchTerm) = filteredReviews
    /\ FilteredData(filteredData, searchTerm) = filteredData

\* a filter that dropped one record and kept two
C10_Witness ==
    /\ Len(businesses) = MaxRows
    /\ Len(searchTerm) > 0
    /\ Len(filteredData) = MaxRows - 1
    /\ FilteredData(filteredData, searchTerm) = filteredData

\* The strings that differ from s in letter case only.
CaseVariants(s) ==
    {t \in [1..Len(s) -> Alphabet \cup {"B"}] :
        \A i \in 1..Len(s) : SameLetter(t[i], s[i])}

\* C11: two search terms that differ in letter case only give the same
\* result from both filters, and changing the letter case of a record's
\* searchable text does not change whether the record is kept.
C11_CaseInsensitive ==
    /\ \A term \in CaseVariants(searchTerm) :
          /\ FilteredReviews(reviews, term) = filteredReviews
          /\ FilteredData(businesses, term) = filteredData
    /\ \A i \in 1..Len(reviews) : \A t \in CaseVariants(reviews[i].source) :
          (FilteredReviews(<<[reviews[i] EXCEPT !.source = t]>>, searchTerm) = <<>>)
            <=> (FilteredReviews(<<reviews[i]>>, searchTerm) = <<>>)
    /\ \A i \in 1..Len(businesses) :
          /\ \A t \in CaseVariants(businesses[i].name) :
                (FilteredData(<<[businesses[i] EXCEPT !.name = t]>>, searchTerm) = <<>>)
                  <=> (FilteredData(<<businesses[i]>>, searchTerm) = <<>>)
          /\ \A t \in CaseVariants(businesses[i].category) :
                (FilteredData(<<[businesses[i] EXCEPT !.category = t]>>, searchTerm) = <<>>)
                  <=> (FilteredData(<<businesses[i]>>, searchTerm) = <<>>)

\* an upper-case term that keeps a business by its mixed-case name only
C11_Witness ==
    /\ Len(businesses) = 2
    /\ searchTerm # ToLowerCase(searchTerm)
    /\ Len(filteredData) = 1
    /\ \E i \in 1..2 : filteredData[1] = businesses[i]
          /\ ~ContainsIgnoringCase(businesses[i].category, searchTerm)
          /\ ~Includes(businesses[i].name, ToLowerCase(searchTerm))

\* C12: for every batch, the empty one included, ratingDistributionData has
\* exactly five entries, for the stars 5, 4, 3, 2, 1 in that order, each
\* with a count that is a natural number.
C12_FiveOrderedNaturalBuckets ==
    /\ Len(ratingDistributionData) = 5
    /\ \A e \in 1..5 :
          /\ ratingDistributionData[e].rating = 6 - e
          /\ ratingDistributionData[e].count \in Nat

\* a batch with a record without a distribution, a filled and an empty bucket
C12_Witness ==
    /\ Len(data) = 2
    /\ ~Has(data[1], "distribution")
    /\ Has(data[2], "distribution")
    /\ ratingDistributionData[2].count > 0
    /\ ratingDistributionData[1].count = 0
    /\ Len(ratingDistributionData) = 5

\* The responses that are upstream failures.
UpstreamFailures == {"rejected", "notOk", "badJson", "errorField"}

\* C13: on both review pages a submission that ended in an upstream failure
\* (fetch rejected, response not OK, or an error field in the body) leaves
\* an error message set and the data empty, and in every state a non-null
\* error implies empty data.
C13_FailureGivesErrorAndNoData ==
    /\ (pc = "idle" /\ response \in UpstreamFailures)
          => (error # NoError /\ data = <<>>)
    /\ (reviewsPc = "idle" /\ reviewsResponse \in UpstreamFailures)
          => (reviewsError # NoError /\ reviews = <<>>)
    /\ error # NoError => data = <<>>
    /\ reviewsError # NoError => reviews = <<>>

\* C14: on each of the three pages loading is true exactly while a
\* submission is in flight, and a page that is loading eventually stops
\* loading.
C14_LoadingOnlyWhileSubmitting ==
    /\ [](loading <=> pc = "fetching")
    /\ [](reviewsLoading <=> reviewsPc = "fetching")
    /\ [](businessLoading <=> businessPc = "fetching")
    /\ (loading ~> ~loading)
    /\ (reviewsLoading ~> ~reviewsLoading)
    /\ (businessLoading ~> ~businessLoading)

\* the three pages at rest after a validation failure, a successful fetch
\* and a thrown error
C14_Witness ==
    /\ error = MsgNoUrl /\ ~loading
    /\ reviewsResponse = "data" /\ Len(reviews) = 1 /\ ~reviewsLoading
    /\ message = MsgErrFetch /\ ~businessLoading

\* C15: on the business page data is always the empty list, so that
\* filteredData is empty for every search term, averageRating is 0 and the
\* dashboard is never shown.
C15_BusinessDataAlwaysEmpty ==
    /\ businesses = <<>>
    /\ \A term \in Queries : FilteredData(businesses, term) = <<>>
    /\ averageRating = 0
    /\ ~DashboardShown

\* the business page at rest after a successful submission
C15_Witness ==
    /\ message = MsgScraped
    /\ businessPc = "idle"
    /\ ~businessLoading

\* The businesses whose rating r satisfies lo <= r and, if hi is not 0,
\* r < hi.
InRange(d, lo, hi) ==
    {k \in 1..Len(d) :
        /\ Has(d[k], "rating")
        /\ d[k].rating >= lo
        /\ (hi # 0 => d[k].rating < hi)}

BucketTotal == SumFn([i \in 1..5 |-> ratingDistribution[i].count])

\* C16: the five counts of ratingDistribution are the numbers of businesses
\* rated >= 5, in [4,5), [3,4), [2,3) and [1,2); no business is counted
\* twice, and the counts add up to the number of businesses rated >= 1,
\* which is at most the number of businesses.
C16_EachBusinessInAtMostOneBucket ==
    /\ ratingDistribution[1].count = Cardinality(InRange(businesses, 500, 0))
    /\ ratingDistribution[2].count = Cardinality(InRange(businesses, 400, 500))
    /\ ratingDistribution[3].count = Cardinality(InRange(businesses, 300, 400))
    /\ ratingDistribution[4].count = Cardinality(InRange(businesses, 200, 300))
    /\ ratingDistribution[5].count = Cardinality(InRange(businesses, 100, 200))
    /\ BucketTotal = Cardinality(InRange(businesses, 100, 0))
    /\ BucketTotal <= Len(businesses)

\* one business rated above 5 and one without a rating
C16_Witness ==
    /\ Len(businesses) = 2
    /\ Has(businesses[1], "rating") /\ businesses[1].rating = 550
    /\ ~Has(businesses[2], "rating")
    /\ ratingDistribution[1].count = 1
    /\ BucketTotal = 1

====
